---------------------------- MODULE Spec2Model ----------------------------
(***************************************************************************)
(* Generate Networking Dashboard Sync (networking-sync.js): the onboarding *)
(* sheet is normalised into person records, deduplicated by email, merged  *)
(* with the dashboard sheet's records and the new people are appended.     *)
(*                                                                         *)
(* JavaScript strings are sequences of one-character strings, so that      *)
(* toLowerCase, trim, includes and camelize are computed, not assumed.     *)
(* A JavaScript object is a function from its keys (strings) to values.    *)
(***************************************************************************)
EXTENDS Integers, Sequences, FiniteSets, TLC

\* ------------------------------------------------------------------------
\* Strings
\* ------------------------------------------------------------------------

UpperChars == <<"A", "B", "C", "D", "E", "F", "G", "H", "I", "J", "K", "L", "M", "N", "O", "P", "Q", "R", "S", "T", "U", "V", "W", "X", "Y", "Z">>
LowerChars == <<"a", "b", "c", "d", "e", "f", "g", "h", "i", "j", "k", "l", "m", "n", "o", "p", "q", "r", "s", "t", "u", "v", "w", "x", "y", "z">>
DigitChars == <<"0", "1", "2", "3", "4", "5", "6", "7", "8", "9">>

\* the value of a missing cell or property (row[i] beyond the row's length,
\* obj.key for a key the object lacks)
Undefined == <<"undefined">>

UpperSet == {UpperChars[i] : i \in 1..Len(UpperChars)}
LowerSet == {LowerChars[i] : i \in 1..Len(LowerChars)}
DigitSet == {DigitChars[i] : i \in 1..Len(DigitChars)}
WordSet == UpperSet \cup LowerSet \cup DigitSet \cup {"_"}

IsUpper(c) == c \in UpperSet
IsLower(c) == c \in LowerSet
IsDigit(c) == c \in DigitSet
\* \w of a regular expression: [A-Za-z0-9_]
IsWordChar(c) == c \in WordSet
\* \s, and the characters String.prototype.trim strips
IsSpace(c) == c \in {" ", "\t"}

LowerOf ==
  [ A |-> "a", B |-> "b", C |-> "c", D |-> "d", E |-> "e", F |-> "f", G |-> "g",
    H |-> "h", I |-> "i", J |-> "j", K |-> "k", L |-> "l", M |-> "m", N |-> "n",
    O |-> "o", P |-> "p", Q |-> "q", R |-> "r", S |-> "s", T |-> "t", U |-> "u",
    V |-> "v", W |-> "w", X |-> "x", Y |-> "y", Z |-> "z" ]
UpperOf ==
  [ a |-> "A", b |-> "B", c |-> "C", d |-> "D", e |-> "E", f |-> "F", g |-> "G",
    h |-> "H", i |-> "I", j |-> "J", k |-> "K", l |-> "L", m |-> "M", n |-> "N",
    o |-> "O", p |-> "P", q |-> "Q", r |-> "R", s |-> "S", t |-> "T", u |-> "U",
    v |-> "V", w |-> "W", x |-> "X", y |-> "Y", z |-> "Z" ]

ToLowerChar(c) == IF IsUpper(c) THEN LowerOf[c] ELSE c
ToUpperChar(c) == IF IsLower(c) THEN UpperOf[c] ELSE c

\* String.prototype.toLowerCase (SubSeq makes the result a tuple)
ToLowerCase(s) == SubSeq([i \in 1..Len(s) |-> ToLowerChar(s[i])], 1, Len(s))

\* String.prototype.trim
Trim(s) ==
  LET keep == {i \in 1..Len(s) : ~IsSpace(s[i])}
  IN  IF keep = {} THEN <<>>
      ELSE LET lo == CHOOSE i \in keep : \A j \in keep : i <= j
               hi == CHOOSE i \in keep : \A j \in keep : j <= i
           IN  SubSeq(s, lo, hi)

\* String.prototype.includes
Includes(s, sub) ==
  \E i \in 0..(Len(s) - Len(sub)) : \A j \in 1..Len(sub) : s[i + j] = sub[j]

\* JavaScript truthiness of a cell: undefined and '' are falsy
Truthy(v) == v # Undefined /\ v # <<>>

\* v || ''
OrEmpty(v) == IF Truthy(v) THEN v ELSE <<>>

\* v?.trim() || ''
TrimOrEmpty(v) == IF v = Undefined THEN <<>> ELSE Trim(v)

\* row[index] of a JavaScript array, index 0-based
At(row, index) == IF index >= 0 /\ index < Len(row) THEN row[index + 1] ELSE Undefined

\* camelize(str): every match of /(?:^\w|[A-Z]|\b\w)/g is lower-cased at
\* offset 0 and upper-cased elsewhere; then /\s+/g is removed
camelizeMatch(str, i) ==
  \/ IsUpper(str[i])
  \/ IsWordChar(str[i]) /\ (i = 1 \/ ~IsWordChar(str[i - 1]))
camelizeChar(str, i) ==
  IF camelizeMatch(str, i)
  THEN IF i = 1 THEN ToLowerChar(str[i]) ELSE ToUpperChar(str[i])
  ELSE str[i]
camelize(str) ==
  SelectSeq([i \in 1..Len(str) |-> camelizeChar(str, i)], LAMBDA c : ~IsSpace(c))


\* ------------------------------------------------------------------------
\* Dates and numbers
\* ------------------------------------------------------------------------

DigitVal(c) == (CHOOSE i \in 1..Len(DigitChars) : DigitChars[i] = c) - 1

RECURSIVE DigitsToInt(_)
DigitsToInt(s) ==
  IF s = <<>> THEN 0 ELSE 10 * DigitsToInt(SubSeq(s, 1, Len(s) - 1)) + DigitVal(s[Len(s)])

\* days from 1970-01-01 to January 1st of year y; a Date's getTime() is
\* kept in whole days, which preserves the order of the instants used here
JanFirst(y) ==
  365 * (y - 1970) + ((y - 1) \div 4 - (y - 1) \div 100 + (y - 1) \div 400) - 477

\* A Date object: valid with its time value, or an Invalid Date (time NaN)
InvalidDate == [valid |-> FALSE, t |-> 0]
DateAt(t) == [valid |-> TRUE, t |-> t]

\* new Date(str) for the texts a timestamp cell holds here: the ISO form
\* "YYYY" is that year's January 1st, any other text is an Invalid Date
ParseDate(str) ==
  IF Len(str) = 4 /\ \A i \in 1..4 : IsDigit(str[i])
  THEN DateAt(JanFirst(DigitsToInt(str)))
  ELSE InvalidDate

\* the year the wall clock shows (new Date().getFullYear())
CurrentYear == 2026

\* the wall clock's first reading of a run
Now == JanFirst(CurrentYear) + 309

\* parseInt(str): leading white space, an optional sign, then the longest
\* run of digits; NaN when there is none
NaNInt == [nan |-> TRUE, n |-> 0]
parseInt(str) ==
  LET lead == IF \E i \in 1..Len(str) : ~IsSpace(str[i])
              THEN (CHOOSE i \in 1..Len(str) : ~IsSpace(str[i]) /\ \A j \in 1..(i - 1) : IsSpace(str[j])) - 1
              ELSE Len(str)
      s1 == SubSeq(str, lead + 1, Len(str))
      neg == s1 # <<>> /\ s1[1] = "-"
      s2 == IF s1 # <<>> /\ s1[1] \in {"-", "+"} THEN Tail(s1) ELSE s1
      nd == IF \E i \in 1..Len(s2) : ~IsDigit(s2[i])
            THEN (CHOOSE i \in 1..Len(s2) : ~IsDigit(s2[i]) /\ \A j \in 1..(i - 1) : IsDigit(s2[j])) - 1
            ELSE Len(s2)
      v == DigitsToInt(SubSeq(s2, 1, nd))
  IN  IF nd = 0 THEN NaNInt ELSE [nan |-> FALSE, n |-> IF neg THEN 0 - v ELSE v]

\* ------------------------------------------------------------------------
\* Schema mapping (findColumnIndex) and the alias tables of getOnboardingData
\* ------------------------------------------------------------------------

\* headers.findIndex(header => header && header.toLowerCase().includes(name.toLowerCase()))
findIndex(headers, name) ==
  LET lower == ToLowerCase(name)
      hit(i) == Truthy(headers[i]) /\ Includes(ToLowerCase(headers[i]), lower)
  IN  IF \E i \in 1..Len(headers) : hit(i)
      THEN (CHOOSE i \in 1..Len(headers) : hit(i) /\ \A j \in 1..(i - 1) : ~hit(j)) - 1
      ELSE -1

\* a lookup that returns the leftmost header that contains any of the names
findColumnIndex_LeftmostHeader(headers, possibleNames) ==
  LET hit(i) == \E a \in 1..Len(possibleNames) : findIndex(<<headers[i]>>, possibleNames[a]) = 0
  IN  IF \E i \in 1..Len(headers) : hit(i)
      THEN (CHOOSE i \in 1..Len(headers) : hit(i) /\ \A j \in 1..(i - 1) : ~hit(j)) - 1
      ELSE -1

RECURSIVE findColumnIndex(_, _)
findColumnIndex(headers, possibleNames) ==
  IF possibleNames = <<>> THEN -1
  ELSE LET index == findIndex(headers, Head(possibleNames))
       IN  IF index # -1 THEN index ELSE findColumnIndex(headers, Tail(possibleNames))

\* the property names of the objects the program builds and reads
Key ==
  [ email |-> <<"e", "m", "a", "i", "l">>, name |-> <<"n", "a", "m", "e">>, personalEmail |-> <<"p", "e", "r", "s", "o", "n", "a", "l", "E", "m", "a", "i", "l">>,
    phone |-> <<"p", "h", "o", "n", "e">>, major |-> <<"m", "a", "j", "o", "r">>, minor |-> <<"m", "i", "n", "o", "r">>,
    college |-> <<"c", "o", "l", "l", "e", "g", "e">>, schoolYear |-> <<"s", "c", "h", "o", "o", "l", "Y", "e", "a", "r">>, company |-> <<"c", "o", "m", "p", "a", "n", "y">>,
    position |-> <<"p", "o", "s", "i", "t", "i", "o", "n">>, location |-> <<"l", "o", "c", "a", "t", "i", "o", "n">>, linkedin |-> <<"l", "i", "n", "k", "e", "d", "i", "n">>,
    github |-> <<"g", "i", "t", "h", "u", "b">>, portfolio |-> <<"p", "o", "r", "t", "f", "o", "l", "i", "o">>, semester |-> <<"s", "e", "m", "e", "s", "t", "e", "r">>,
    duration |-> <<"d", "u", "r", "a", "t", "i", "o", "n">>, companyRating |-> <<"c", "o", "m", "p", "a", "n", "y", "R", "a", "t", "i", "n", "g">>,
    roleRating |-> <<"r", "o", "l", "e", "R", "a", "t", "i", "n", "g">>, jobSearchMethod |-> <<"j", "o", "b", "S", "e", "a", "r", "c", "h", "M", "e", "t", "h", "o", "d">>,
    industry |-> <<"i", "n", "d", "u", "s", "t", "r", "y">>, department |-> <<"d", "e", "p", "a", "r", "t", "m", "e", "n", "t">>,
    gradYearUpdated |-> <<"g", "r", "a", "d", "Y", "e", "a", "r", "U", "p", "d", "a", "t", "e", "d">>, graduationYear |-> <<"g", "r", "a", "d", "u", "a", "t", "i", "o", "n", "Y", "e", "a", "r">>,
    currentStatus |-> <<"c", "u", "r", "r", "e", "n", "t", "S", "t", "a", "t", "u", "s">>, submissionDate |-> <<"s", "u", "b", "m", "i", "s", "s", "i", "o", "n", "D", "a", "t", "e">>,
    rowId |-> <<"r", "o", "w", "I", "d">>, id |-> <<"i", "d">>, positionsCount |-> <<"p", "o", "s", "i", "t", "i", "o", "n", "s", "C", "o", "u", "n", "t">> ]

\* the alias list of each column getOnboardingData looks up
Aliases ==
  [ email |-> << <<"E", "m", "a", "i", "l">>, <<"e", "m", "a", "i", "l">>, <<"E", "m", "a", "i", "l", " ", "A", "d", "d", "r", "e", "s", "s">> >>,
    name |-> << <<"N", "a", "m", "e">>, <<"n", "a", "m", "e">>, <<"F", "u", "l", "l", " ", "N", "a", "m", "e">>, <<"F", "u", "l", "l", " ", "n", "a", "m", "e">> >>,
    company |-> << <<"C", "o", "m", "p", "a", "n", "y">>, <<"c", "o", "m", "p", "a", "n", "y">>, <<"C", "u", "r", "r", "e", "n", "t", " ", "C", "o", "m", "p", "a", "n", "y">>, <<"E", "m", "p", "l", "o", "y", "e", "r">> >>,
    position |-> << <<"P", "o", "s", "i", "t", "i", "o", "n">>, <<"p", "o", "s", "i", "t", "i", "o", "n">>, <<"J", "o", "b", " ", "T", "i", "t", "l", "e">>, <<"R", "o", "l", "e">>, <<"T", "i", "t", "l", "e">> >>,
    location |-> << <<"L", "o", "c", "a", "t", "i", "o", "n">>, <<"l", "o", "c", "a", "t", "i", "o", "n">>, <<"C", "i", "t", "y">>, <<"W", "h", "e", "r", "e", " ", "a", "r", "e", " ", "y", "o", "u", " ", "b", "a", "s", "e", "d", "?">> >>,
    linkedin |-> << <<"L", "i", "n", "k", "e", "d", "I", "n">>, <<"l", "i", "n", "k", "e", "d", "i", "n">>, <<"L", "i", "n", "k", "e", "d", "I", "n", " ", "P", "r", "o", "f", "i", "l", "e">>, <<"L", "i", "n", "k", "e", "d", "I", "n", " ", "U", "R", "L">> >>,
    github |-> << <<"G", "i", "t", "H", "u", "b">>, <<"g", "i", "t", "h", "u", "b">>, <<"G", "i", "t", "H", "u", "b", " ", "P", "r", "o", "f", "i", "l", "e">>, <<"G", "i", "t", "H", "u", "b", " ", "U", "R", "L">> >>,
    graduationYear |-> << <<"G", "r", "a", "d", "u", "a", "t", "i", "o", "n", " ", "Y", "e", "a", "r">>, <<"g", "r", "a", "d", "u", "a", "t", "i", "o", "n", "Y", "e", "a", "r">>, <<"Y", "e", "a", "r">>, <<"G", "r", "a", "d", "u", "a", "t", "i", "o", "n">> >>,
    status |-> << <<"S", "t", "a", "t", "u", "s">>, <<"s", "t", "a", "t", "u", "s">>, <<"C", "u", "r", "r", "e", "n", "t", " ", "S", "t", "a", "t", "u", "s">>, <<"M", "e", "m", "b", "e", "r", " ", "S", "t", "a", "t", "u", "s">> >>,
    date |-> << <<"T", "i", "m", "e", "s", "t", "a", "m", "p">>, <<"t", "i", "m", "e", "s", "t", "a", "m", "p">>, <<"S", "u", "b", "m", "i", "s", "s", "i", "o", "n", " ", "D", "a", "t", "e">>, <<"D", "a", "t", "e">> >>,
    personalEmail |-> << <<"P", "e", "r", "s", "o", "n", "a", "l", "_", "E", "m", "a", "i", "l">> >>,
    phone |-> << <<"P", "h", "o", "n", "e", "_", "N", "u", "m", "b", "e", "r">> >>,
    major |-> << <<"M", "a", "j", "o", "r">> >>,
    minor |-> << <<"M", "i", "n", "o", "r">> >>,
    college |-> << <<"C", "o", "l", "l", "e", "g", "e">> >>,
    schoolYear |-> << <<"S", "c", "h", "o", "o", "l", "_", "Y", "e", "a", "r">> >>,
    portfolio |-> << <<"P", "o", "r", "t", "f", "o", "l", "i", "o">> >>,
    semester |-> << <<"S", "e", "m", "e", "s", "t", "e", "r", "_", "C", "o", "m", "p", "l", "e", "t", "e", "d">> >>,
    duration |-> << <<"D", "u", "r", "a", "t", "i", "o", "n">> >>,
    companyRating |-> << <<"C", "o", "m", "p", "a", "n", "y", "_", "R", "a", "t", "i", "n", "g">> >>,
    roleRating |-> << <<"R", "o", "l", "e", "_", "R", "a", "t", "i", "n", "g">> >>,
    jobSearchMethod |-> << <<"J", "o", "b", "_", "S", "e", "a", "r", "c", "h", "_", "M", "e", "t", "h", "o", "d", "_", "1">> >>,
    industry |-> << <<"I", "n", "d", "u", "s", "t", "r", "y">> >>,
    department |-> << <<"D", "e", "p", "a", "r", "t", "m", "e", "n", "t">> >>,
    gradYearUpdated |-> << <<"G", "r", "a", "d", " ", "Y", "e", "a", "r", " ", "U", "p", "d", "a", "t", "e", "d">> >> ]

\* a lookup that falls back on the first column
emailIndex_FirstColumn(headers) ==
  IF findColumnIndex(headers, Aliases.email) = -1 THEN 0 ELSE findColumnIndex(headers, Aliases.email)
emailIndex(headers) == findColumnIndex(headers, Aliases.email)
statusIndex(headers) == findColumnIndex(headers, Aliases.status)
graduationIndex(headers) == findColumnIndex(headers, Aliases.graduationYear)
dateIndex(headers) == findColumnIndex(headers, Aliases.date)

\* the fields filled with  index !== -1 ? (row[index]?.trim() || '') : ''
PlainFields ==
  { "name", "personalEmail", "phone", "major", "minor", "college", "schoolYear",
    "company", "position", "location", "linkedin", "github", "portfolio",
    "semester", "duration", "companyRating", "roleRating", "jobSearchMethod",
    "industry", "department", "gradYearUpdated", "graduationYear" }

plainField(headers, row, f) ==
  LET index == findColumnIndex(headers, Aliases[f])
  IN  IF index # -1 THEN TrimOrEmpty(At(row, index)) ELSE <<>>

current == <<"c", "u", "r", "r", "e", "n", "t">>
alumni == <<"a", "l", "u", "m", "n", "i">>

\* lines 170-179: the status of a row
currentStatusOf(headers, row) ==
  LET si == statusIndex(headers)
      gi == graduationIndex(headers)
  IN  IF si # -1 /\ Truthy(At(row, si))
      THEN IF Includes(ToLowerCase(At(row, si)), alumni) THEN alumni ELSE current
      ELSE IF gi # -1 /\ Truthy(At(row, gi))
           THEN LET gradYear == parseInt(At(row, gi))
                IN  IF ~gradYear.nan /\ gradYear.n < CurrentYear THEN alumni ELSE current
           ELSE current

\* lines 181-185: the submission date of a row; clockNow is new Date()
submissionDateOf(headers, row, clockNow) ==
  LET di == dateIndex(headers)
  IN  IF di # -1 /\ Truthy(At(row, di)) THEN ParseDate(At(row, di)) ELSE DateAt(clockNow)

\* a skip test without the trim: if (!email) continue
skipsRow_NoTrim(headers, row) == ~Truthy(At(row, emailIndex(headers)))

\* if (!email || !email.trim()) continue
skipsRow(headers, row) ==
  LET email == At(row, emailIndex(headers))
  IN  ~Truthy(email) \/ ~Truthy(Trim(email))

\* lines 204-231: the object pushed for row i (0-based index in rows)
personOf(headers, row, i, clockNow) ==
  [k \in {Key[f] : f \in PlainFields} |->
      plainField(headers, row, CHOOSE f \in PlainFields : Key[f] = k)]
  @@ (Key.email :> ToLowerCase(Trim(At(row, emailIndex(headers)))))
  @@ (Key.currentStatus :> currentStatusOf(headers, row))
  @@ (Key.submissionDate :> submissionDateOf(headers, row, clockNow))
  @@ (Key.rowId :> i + 1)


\* obj.key of a JavaScript object
Get(obj, key) == IF key \in DOMAIN obj THEN obj[key] ELSE Undefined

\* ------------------------------------------------------------------------
\* Deduplication
\* ------------------------------------------------------------------------

\* the comparator of line 264, (a, b) => b.getTime() - a.getTime(); a NaN
\* result (an Invalid Date on either side) is taken as +0 by Array.prototype.sort
compareDates(a, b) ==
  IF a[Key.submissionDate].valid /\ b[Key.submissionDate].valid
  THEN b[Key.submissionDate].t - a[Key.submissionDate].t
  ELSE 0

IndexPermutations(n) == {p \in [1..n -> 1..n] : \A i, j \in 1..n : i # j => p[i] # p[j]}

\* a consistent comparator orders the elements it calls equal alike
ConsistentComparator(data) ==
  \A i, j, k \in 1..Len(data) :
    (compareDates(data[i], data[j]) = 0 /\ compareDates(data[j], data[k]) = 0)
      => compareDates(data[i], data[k]) = 0

\* [...data].sort(comparator): the stable sort when the comparator is
\* consistent; with an inconsistent comparator the order is
\* implementation-defined, any permutation of the input
sortOutcomes(data) ==
  LET n == Len(data)
      stable(p) == \A i, j \in 1..n : i < j =>
                      \/ compareDates(data[p[i]], data[p[j]]) < 0
                      \/ compareDates(data[p[i]], data[p[j]]) = 0 /\ p[i] < p[j]
  IN  IF ConsistentComparator(data)
      THEN {[i \in 1..n |-> data[p[i]]] : p \in {q \in IndexPermutations(n) : stable(q)}}
      ELSE {[i \in 1..n |-> data[p[i]]] : p \in IndexPermutations(n)}

\* the Map keyed by the record itself, not by its email
deduplicateOnboardingData_ByRecord(sortedData) == sortedData

\* lines 261-273: the Map keeps the first record of each email of
\* sortedData, in insertion order
deduplicateOnboardingData(sortedData) ==
  LET first(i) == \A j \in 1..(i - 1) : sortedData[j][Key.email] # sortedData[i][Key.email]
      RECURSIVE keep(_)
      keep(i) == IF i > Len(sortedData) THEN <<>>
                 ELSE (IF first(i) THEN <<sortedData[i]>> ELSE <<>>) \o keep(i + 1)
  IN  keep(1)

\* ------------------------------------------------------------------------
\* The dashboard's records and the conservative merge
\* ------------------------------------------------------------------------

\* lines 305-317: the object of row i (0-based) of the dashboard sheet
currentObject(headers, row, i) ==
  LET cols == {c \in 1..Len(headers) : Truthy(headers[c])}
      keys == {camelize(headers[c]) : c \in cols}
      last(k) == CHOOSE c \in cols : camelize(headers[c]) = k
                    /\ \A d \in cols : camelize(headers[d]) = k => d <= c
  IN  [k \in keys \cup {Key.id} |->
         IF k = Key.id THEN i + 1 ELSE OrEmpty(At(row, last(k) - 1))]

\* lines 296-317
currentObjects(rows) ==
  IF rows = <<>> THEN <<>>
  ELSE [i \in 1..(Len(rows) - 1) |-> currentObject(rows[1], rows[i + 1], i)]

\* person.email?.toLowerCase()
lowerEmail(person) ==
  IF Get(person, Key.email) = Undefined THEN Undefined ELSE ToLowerCase(person[Key.email])

\* new Set(currentData.map(person => person.email?.toLowerCase()).filter(Boolean))
currentEmailSet(currentData) ==
  {lowerEmail(currentData[i]) : i \in {j \in 1..Len(currentData) : Truthy(lowerEmail(currentData[j]))}}

\* people.filter(person => !currentEmailSet.has(person.email))
newPeopleOf(people, currentData) ==
  LET emails == currentEmailSet(currentData)
  IN  SelectSeq(people, LAMBDA person : Get(person, Key.email) \notin emails)

\* lines 342-354: the object the merge makes of an existing record
existingPerson(currentPerson, clockNow) ==
  (Key.email :> OrEmpty(lowerEmail(currentPerson)))
  @@ (Key.name :> OrEmpty(Get(currentPerson, Key.name)))
  @@ (Key.company :> OrEmpty(Get(currentPerson, Key.company)))
  @@ (Key.position :> OrEmpty(Get(currentPerson, Key.position)))
  @@ (Key.location :> OrEmpty(Get(currentPerson, Key.location)))
  @@ (Key.linkedin :> OrEmpty(Get(currentPerson, Key.linkedin)))
  @@ (Key.github :> OrEmpty(Get(currentPerson, Key.github)))
  @@ (Key.graduationYear :> OrEmpty(Get(currentPerson, Key.graduationYear)))
  @@ (Key.currentStatus :>
        IF Truthy(Get(currentPerson, Key.currentStatus)) THEN currentPerson[Key.currentStatus] ELSE current)
  @@ (Key.submissionDate :> DateAt(clockNow))
  @@ (Key.rowId :> currentPerson[Key.id])

existingPeopleOf(currentData, clockNow) ==
  [i \in 1..Len(currentData) |-> existingPerson(currentData[i], clockNow)]

\* lines 331-360
mergeNetworkingData(onboardingData, currentData, clockNow) ==
  existingPeopleOf(currentData, clockNow) \o newPeopleOf(onboardingData, currentData)

\* ------------------------------------------------------------------------
\* Output rows
\* ------------------------------------------------------------------------

\* lines 406-449: the cell of one header of the dashboard for a person
rowCell(person, header) ==
  LET headerLower == ToLowerCase(header)
      has(w) == Includes(headerLower, w)
      field(k) == OrEmpty(Get(person, k))
  IN  IF has(<<"e", "m", "a", "i", "l">>) /\ ~has(<<"p", "e", "r", "s", "o", "n", "a", "l">>) THEN Get(person, Key.email)
      ELSE IF has(<<"n", "a", "m", "e">>) /\ ~has(<<"c", "o", "m", "p", "a", "n", "y">>) THEN Get(person, Key.name)
      ELSE IF has(<<"p", "e", "r", "s", "o", "n", "a", "l">>) /\ has(<<"e", "m", "a", "i", "l">>) THEN field(Key.personalEmail)
      ELSE IF has(<<"p", "h", "o", "n", "e">>) THEN field(Key.phone)
      ELSE IF has(<<"m", "a", "j", "o", "r">>) THEN field(Key.major)
      ELSE IF has(<<"m", "i", "n", "o", "r">>) THEN field(Key.minor)
      ELSE IF has(<<"c", "o", "l", "l", "e", "g", "e">>) THEN field(Key.college)
      ELSE IF has(<<"s", "c", "h", "o", "o", "l">>) /\ has(<<"y", "e", "a", "r">>) THEN field(Key.schoolYear)
      ELSE IF has(<<"g", "r", "a", "d", "u", "a", "t", "i", "o", "n">>) THEN field(Key.graduationYear)
      ELSE IF has(<<"l", "i", "n", "k", "e", "d", "i", "n">>) THEN field(Key.linkedin)
      ELSE IF has(<<"p", "o", "r", "t", "f", "o", "l", "i", "o">>) THEN field(Key.portfolio)
      ELSE IF has(<<"n", "u", "m", "b", "e", "r">>) /\ has(<<"p", "o", "s", "i", "t", "i", "o", "n">>) THEN field(Key.positionsCount)
      ELSE IF has(<<"c", "o", "m", "p", "a", "n", "y">>) /\ ~has(<<"r", "a", "t", "i", "n", "g">>) THEN field(Key.company)
      ELSE IF has(<<"j", "o", "b">>) /\ has(<<"t", "i", "t", "l", "e">>) THEN field(Key.position)
      ELSE IF has(<<"s", "e", "m", "e", "s", "t", "e", "r">>) THEN field(Key.semester)
      ELSE IF has(<<"d", "u", "r", "a", "t", "i", "o", "n">>) THEN field(Key.duration)
      ELSE IF has(<<"c", "o", "m", "p", "a", "n", "y">>) /\ has(<<"r", "a", "t", "i", "n", "g">>) THEN field(Key.companyRating)
      ELSE IF has(<<"r", "o", "l", "e">>) /\ has(<<"r", "a", "t", "i", "n", "g">>) THEN field(Key.roleRating)
      ELSE IF has(<<"j", "o", "b">>) /\ has(<<"s", "e", "a", "r", "c", "h">>) THEN field(Key.jobSearchMethod)
      ELSE IF has(<<"i", "n", "d", "u", "s", "t", "r", "y">>) THEN field(Key.industry)
      ELSE <<>>

\* a row whose company rule comes before every other rule
newRowOf_CompanyFirst(person, headers) ==
  [c \in 1..Len(headers) |->
     IF /\ Includes(ToLowerCase(headers[c]), Key.company)
        /\ ~Includes(ToLowerCase(headers[c]), <<"r", "a", "t", "i", "n", "g">>)
     THEN OrEmpty(Get(person, Key.company))
     ELSE rowCell(person, headers[c])]

\* lines 402-453
newRowOf(person, headers) == [c \in 1..Len(headers) |-> rowCell(person, headers[c])]
newRowsOf(people, headers) == [i \in 1..Len(people) |-> newRowOf(people[i], headers)]

\* lines 456-459: "A:" and String.fromCharCode(65 + headers.length - 1) is
\* a range of the sheet only for 1 to 26 columns ("A:@" is none)
appendRangeValid(headers) == Len(headers) >= 1 /\ Len(headers) <= 26

\* ------------------------------------------------------------------------
\* The spreadsheet service: values.get returns a sheet's rows without
\* trailing empty cells and without trailing empty rows; values.append
\* (INSERT_ROWS) puts the rows after the last row of the sheet
\* ------------------------------------------------------------------------

RECURSIVE stripTrailing(_, _)
stripTrailing(s, empty) ==
  IF s # <<>> /\ s[Len(s)] = empty THEN stripTrailing(SubSeq(s, 1, Len(s) - 1), empty) ELSE s

sheetValues(rows) ==
  stripTrailing([i \in 1..Len(rows) |-> stripTrailing(rows[i], <<>>)], <<>>)

appendValues(sheet, values) == sheetValues(sheet \o values)

\* ------------------------------------------------------------------------
\* The sheets a run may find
\* ------------------------------------------------------------------------

\* the most data rows of the onboarding sheet and of the dashboard sheet
MaxOnboardingRows == 2
MaxDashboardRows == 1

SeqsUpTo(S, n) == UNION {[1..m -> S] : m \in 0..n}

\* a form sheet with a timestamp, an email and a name column
FormHeaders == << <<"T", "i", "m", "e", "s", "t", "a", "m", "p">>, <<"E", "m", "a", "i", "l">>, <<"N", "a", "m", "e">> >>
FormRows ==
  { << <<"2", "0", "2", "3">>, <<"a", "@", "x">>, <<"n">> >>,
    << <<"2", "0", "2", "4">>, <<" ", "A", "@", "x", " ">>, <<"m">> >>,
    << <<"x">>, <<"a", "@", "x">>, <<"n">> >>,
    << <<>>, <<"b", "@", "x">>, <<"n">> >>,
    << <<"2", "0", "2", "4">>, <<" ">>, <<"n">> >>,
    << <<"2", "0", "2", "3">> >> }

\* a sheet with a status and a graduation year column
StatusHeaders == << <<"E", "m", "a", "i", "l">>, <<"S", "t", "a", "t", "u", "s">>, <<"G", "r", "a", "d", "u", "a", "t", "i", "o", "n", " ", "Y", "e", "a", "r">> >>
StatusRows ==
  { << <<"a", "@", "x">>, <<"A", "l", "u", "m", "n", "i">>, <<"2", "0", "3", "0">> >>,
    << <<"a", "@", "x">>, <<>>, <<"2", "0", "2", "0">> >>,
    << <<"b", "@", "x">>, <<>>, <<"x">> >> }

\* a sheet without an email column
NoEmailHeaders == << <<"T", "i", "m", "e", "s", "t", "a", "m", "p">>, <<"N", "a", "m", "e">> >>
NoEmailRows == { << <<"2", "0", "2", "3">>, <<"n">> >> }

OnboardingSheets ==
  {<<>>}
  \cup {<<FormHeaders>> \o rows : rows \in SeqsUpTo(FormRows, MaxOnboardingRows)}
  \cup {<<StatusHeaders>> \o rows : rows \in SeqsUpTo(StatusRows, MaxOnboardingRows)}
  \cup {<<NoEmailHeaders>> \o rows : rows \in SeqsUpTo(NoEmailRows, MaxOnboardingRows)}

DashboardHeaders ==
  { << <<"E", "m", "a", "i", "l">>, <<"N", "a", "m", "e">> >>,
    << <<"E", "m", "a", "i", "l", " ", "A", "d", "d", "r", "e", "s", "s">>, <<"N", "a", "m", "e">> >> }
DashboardRows ==
  { << <<"A", "@", "x">>, <<"n">> >>,
    << <<" ", "a", "@", "x">>, <<"n">> >>,
    << <<>>, <<"n">> >> }

DashboardSheets ==
  {<<>>}
  \cup {<<h>> \o rows : h \in DashboardHeaders, rows \in SeqsUpTo(DashboardRows, MaxDashboardRows)}

\* ------------------------------------------------------------------------
\* A run of sync()
\* ------------------------------------------------------------------------

VARIABLES
  onboardingSheet,   \* the onboarding form sheet (header row first)
  dashboardSheet,    \* the networking dashboard sheet (header row first)
  pc,                \* where the run of sync() stands
  clock,             \* the wall clock's latest reading
  onboardingData,    \* sync's onboardingData
  deduplicatedData,  \* sync's deduplicatedData
  currentData,       \* sync's currentData
  mergedData,        \* sync's mergedData
  existingRows,      \* updateNetworkingDashboard's existingRows
  updateResult,      \* what updateNetworkingDashboard returned, if it did
  result,            \* what sync() returned, if it did
  appendCalls,       \* the values of each values.append call of the run
  log,               \* the steps of the run, in order
  sheetAtStart,      \* the dashboard sheet as the run found it
  previous,          \* the earlier runs: what each appended and returned
  mode,              \* the method that runs: "sync" or "preview"
  call,              \* a call of a method by itself: its arguments
  returned           \* what that call returned, if it did

vars ==
  << onboardingSheet, dashboardSheet, pc, clock, onboardingData, deduplicatedData,
     currentData, mergedData, existingRows, updateResult, result, appendCalls, log,
     sheetAtStart, previous, mode, call, returned >>

\* the two sheets as a run finds them, and nothing done yet
Start ==
  /\ onboardingSheet \in OnboardingSheets
  /\ dashboardSheet \in DashboardSheets
  /\ pc = "initializeAuth"
  /\ clock = Now
  /\ onboardingData = <<>>
  /\ deduplicatedData = <<>>
  /\ currentData = <<>>
  /\ mergedData = <<>>
  /\ existingRows = <<>>
  /\ updateResult = <<>>
  /\ result = <<>>
  /\ appendCalls = <<>>
  /\ log = <<>>
  /\ sheetAtStart = dashboardSheet
  /\ previous = <<>>
  /\ call = <<>>
  /\ returned = <<>>

\* new NetworkingSync() and sync()
Init == Start /\ mode = "sync"

\* sync's catch block (lines 547-553) and the early return of line 498
Failure(message) == [success |-> FALSE, message |-> message, stats |-> <<>>]

\* the catch block of the method that runs (lines 547-553, 597-603)
Failed == Failure(IF mode = "preview" THEN "Preview failed" ELSE "Sync failed")

\* lines 520-546
newEntriesOf(dedup, cur) ==
  Cardinality({i \in 1..Len(dedup) :
     ~\E j \in 1..Len(cur) : lowerEmail(cur[j]) = dedup[i][Key.email]})

Success ==
  [ success |-> TRUE,
    message |-> "Sync completed successfully",
    stats |-> << [ totalOnboardingEntries |-> Len(onboardingData),
                   deduplicatedEntries |-> Len(deduplicatedData),
                   currentEntries |-> Len(currentData),
                   finalEntries |-> Len(currentData) + newEntriesOf(deduplicatedData, currentData),
                   newEntries |-> newEntriesOf(deduplicatedData, currentData),
                   updatedEntries |-> 0 ] >> ]

\* lines 92-119 and 497-499
InitializeAuth ==
  /\ pc = "initializeAuth"
  /\ \E ok \in BOOLEAN :
       /\ log' = Append(log, IF ok THEN "auth" ELSE "authFailed")
       /\ IF ok
          THEN pc' = "getOnboardingData" /\ UNCHANGED result
          ELSE pc' = "done" /\ result' = <<Failure("Authentication failed")>>
  /\ UNCHANGED << onboardingSheet, dashboardSheet, clock, onboardingData, deduplicatedData,
                  currentData, mergedData, existingRows, updateResult, appendCalls,
                  sheetAtStart, previous, mode, call, returned >>

\* lines 164-232: the records of the data rows; reading[i] is what
\* new Date() gave while row i was handled
onboardingRecords(rows, reading) ==
  LET headers == rows[1]
      RECURSIVE from(_)
      from(i) == IF i > Len(rows) - 1 THEN <<>>
                 ELSE (IF skipsRow(headers, rows[i + 1]) THEN <<>>
                       ELSE <<personOf(headers, rows[i + 1], i, reading[i])>>) \o from(i + 1)
  IN  from(1)

\* the rows whose submission date is the clock's reading
clockRows(rows) ==
  {i \in 1..(Len(rows) - 1) :
     /\ ~skipsRow(rows[1], rows[i + 1])
     /\ ~(dateIndex(rows[1]) # -1 /\ Truthy(At(rows[i + 1], dateIndex(rows[1]))))}

\* the rows before whose reading the clock may have moved on since the
\* reading before: every clock row but the first
laterClockRows(rows) ==
  {i \in clockRows(rows) : \E j \in clockRows(rows) : j < i}

\* lines 124-240 and 502
GetOnboardingData ==
  /\ pc = "getOnboardingData"
  /\ \/ \* values.get fails
        /\ log' = Append(log, "fetchOnboardingFailed")
        /\ pc' = "done"
        /\ result' = <<Failed>>
        /\ UNCHANGED << onboardingData, clock >>
     \/ \* no rows
        /\ onboardingSheet = <<>>
        /\ log' = Append(log, "fetchOnboarding")
        /\ onboardingData' = <<>>
        /\ pc' = "deduplicate"
        /\ UNCHANGED << result, clock >>
     \/ \* Email column not found
        /\ onboardingSheet # <<>>
        /\ emailIndex(onboardingSheet[1]) = -1
        /\ log' = Append(log, "fetchOnboarding")
        /\ pc' = "done"
        /\ result' = <<Failed>>
        /\ UNCHANGED << onboardingData, clock >>
     \/ /\ onboardingSheet # <<>>
        /\ emailIndex(onboardingSheet[1]) # -1
        /\ \E ticked \in SUBSET laterClockRows(onboardingSheet) :
             LET reading == [i \in 1..(Len(onboardingSheet) - 1) |->
                               clock + Cardinality({j \in ticked : j <= i})]
             IN  /\ onboardingData' = onboardingRecords(onboardingSheet, reading)
                 /\ clock' = clock + Cardinality(ticked)
        /\ log' = Append(log, "fetchOnboarding")
        /\ pc' = "deduplicate"
        /\ UNCHANGED result
  /\ UNCHANGED << onboardingSheet, dashboardSheet, deduplicatedData, currentData, mergedData,
                  existingRows, updateResult, appendCalls, sheetAtStart, previous, mode, call, returned >>

\* lines 258-278 and 505
DeduplicateOnboardingData ==
  /\ pc = "deduplicate"
  /\ \E sortedData \in sortOutcomes(onboardingData) :
       deduplicatedData' = deduplicateOnboardingData(sortedData)
  /\ log' = Append(log, "deduplicate")
  /\ pc' = "getCurrentNetworkingData"
  /\ UNCHANGED << onboardingSheet, dashboardSheet, clock, onboardingData, currentData,
                  mergedData, existingRows, updateResult, result, appendCalls, sheetAtStart,
                  previous, mode, call, returned >>

\* a fetch whose catch block returns [] instead of throwing again
GetCurrentNetworkingData_ReturnsEmptyOnError ==
  /\ pc = "getCurrentNetworkingData"
  /\ \/ /\ log' = Append(log, "fetchCurrentFailed")
        /\ currentData' = <<>>
     \/ /\ log' = Append(log, "fetchCurrent")
        /\ currentData' = currentObjects(dashboardSheet)
  /\ pc' = "merge"
  /\ UNCHANGED << onboardingSheet, dashboardSheet, clock, onboardingData, deduplicatedData,
                  mergedData, existingRows, updateResult, result, appendCalls, sheetAtStart,
                  previous, mode, call, returned >>

\* lines 283-325 and 508 (sync), 571 (preview)
GetCurrentNetworkingData ==
  /\ pc = "getCurrentNetworkingData"
  /\ \/ \* values.get fails
        /\ log' = Append(log, "fetchCurrentFailed")
        /\ pc' = "done"
        /\ result' = <<Failed>>
        /\ UNCHANGED currentData
     \/ /\ log' = Append(log, "fetchCurrent")
        /\ currentData' = currentObjects(dashboardSheet)
        /\ pc' = IF mode = "preview" THEN "previewStatistics" ELSE "merge"
        /\ UNCHANGED result
  /\ UNCHANGED << onboardingSheet, dashboardSheet, clock, onboardingData, deduplicatedData,
                  mergedData, existingRows, updateResult, appendCalls, sheetAtStart, previous, mode, call, returned >>

\* lines 331-360 and 511
MergeNetworkingData ==
  /\ pc = "merge"
  /\ mergedData' = mergeNetworkingData(deduplicatedData, currentData, clock)
  /\ log' = Append(log, "merge")
  /\ pc' = "updateNetworkingDashboard"
  /\ UNCHANGED << onboardingSheet, dashboardSheet, clock, onboardingData, deduplicatedData,
                  currentData, existingRows, updateResult, result, appendCalls, sheetAtStart,
                  previous, mode, call, returned >>

\* an update without the early return of lines 377-384
UpdateNetworkingDashboard_NoEarlyReturn ==
  /\ pc = "updateNetworkingDashboard"
  /\ pc' = "readSheet"
  /\ log' = Append(log, "update")
  /\ UNCHANGED << onboardingSheet, dashboardSheet, clock, onboardingData, deduplicatedData,
                  currentData, mergedData, existingRows, updateResult, result, appendCalls,
                  sheetAtStart, previous, mode, call, returned >>

\* lines 370-384 and 514-546: the new people of the merged data; with
\* none, the update returns at once and sync returns its statistics
UpdateNetworkingDashboard ==
  /\ pc = "updateNetworkingDashboard"
  /\ IF newPeopleOf(mergedData, currentData) = <<>>
     THEN /\ updateResult' = <<[success |-> TRUE, rowsUpdated |-> 0]>>
          /\ result' = <<Success>>
          /\ pc' = "done"
     ELSE /\ pc' = "readSheet"
          /\ UNCHANGED << updateResult, result >>
  /\ log' = Append(log, "update")
  /\ UNCHANGED << onboardingSheet, dashboardSheet, clock, onboardingData, deduplicatedData,
                  currentData, mergedData, existingRows, appendCalls, sheetAtStart, previous, mode, call, returned >>

\* lines 388-399, and 479-486 and 516-518 when values.get fails
UpdateReadSheet ==
  /\ pc = "readSheet"
  /\ \/ /\ log' = Append(log, "readSheetFailed")
        /\ updateResult' = <<[success |-> FALSE, rowsUpdated |-> 0]>>
        /\ result' = <<Failure("Sync failed")>>
        /\ pc' = "done"
        /\ UNCHANGED existingRows
     \/ /\ log' = Append(log, "readSheet")
        /\ existingRows' = dashboardSheet
        /\ pc' = "append"
        /\ UNCHANGED << updateResult, result >>
  /\ UNCHANGED << onboardingSheet, dashboardSheet, clock, onboardingData, deduplicatedData,
                  currentData, mergedData, appendCalls, sheetAtStart, previous, mode, call, returned >>

\* const headers = existingRows[0] || []
headersOf(rows) == IF rows = <<>> THEN <<>> ELSE rows[1]

\* an update that calls values.append a second time when the first call
\* failed
UpdateAppend_RetriesOnce ==
  /\ pc = "append"
  /\ LET headers == headersOf(existingRows)
         newRows == newRowsOf(newPeopleOf(mergedData, currentData), headers)
     IN  /\ appendCalls' = Append(appendCalls, newRows)
         /\ \/ /\ log' = Append(log, "appendFailed")
               /\ IF appendCalls = <<>>
                  THEN pc' = "append" /\ UNCHANGED << updateResult, result >>
                  ELSE /\ pc' = "done"
                       /\ updateResult' = <<[success |-> FALSE, rowsUpdated |-> 0]>>
                       /\ result' = <<Failure("Sync failed")>>
               /\ UNCHANGED dashboardSheet
            \/ /\ appendRangeValid(headers)
               /\ log' = Append(log, "append")
               /\ dashboardSheet' = appendValues(dashboardSheet, newRows)
               /\ updateResult' = <<[success |-> TRUE, rowsUpdated |-> Len(newRows)]>>
               /\ result' = <<Success>>
               /\ pc' = "done"
  /\ UNCHANGED << onboardingSheet, clock, onboardingData, deduplicatedData, currentData,
                  mergedData, existingRows, sheetAtStart, previous, mode, call, returned >>

\* lines 401-486 and 516-546: the rows are built and handed to
\* values.append, which may fail and does fail on a range that is none
UpdateAppend ==
  /\ pc = "append"
  /\ LET headers == headersOf(existingRows)
         newRows == newRowsOf(newPeopleOf(mergedData, currentData), headers)
     IN  /\ appendCalls' = Append(appendCalls, newRows)
         /\ \/ /\ log' = Append(log, "appendFailed")
               /\ updateResult' = <<[success |-> FALSE, rowsUpdated |-> 0]>>
               /\ result' = <<Failure("Sync failed")>>
               /\ UNCHANGED dashboardSheet
            \/ /\ appendRangeValid(headers)
               /\ log' = Append(log, "append")
               /\ dashboardSheet' = appendValues(dashboardSheet, newRows)
               /\ updateResult' = <<[success |-> TRUE, rowsUpdated |-> Len(newRows)]>>
               /\ result' = <<Success>>
  /\ pc' = "done"
  /\ UNCHANGED << onboardingSheet, clock, onboardingData, deduplicatedData, currentData,
                  mergedData, existingRows, sheetAtStart, previous, mode, call, returned >>

\* sync() is run once more after a run that succeeded, on the sheets as
\* that run left them
SyncAgain ==
  /\ pc = "done"
  /\ previous = <<>>
  /\ result[1].success
  /\ previous' = <<[appended |-> appendCalls, result |-> result[1], log |-> log]>>
  /\ pc' = "initializeAuth"
  /\ onboardingData' = <<>>
  /\ deduplicatedData' = <<>>
  /\ currentData' = <<>>
  /\ mergedData' = <<>>
  /\ existingRows' = <<>>
  /\ updateResult' = <<>>
  /\ result' = <<>>
  /\ appendCalls' = <<>>
  /\ log' = <<>>
  /\ sheetAtStart' = dashboardSheet
  /\ UNCHANGED << onboardingSheet, dashboardSheet, clock, mode, call, returned >>

Next ==
  \/ InitializeAuth
  \/ GetOnboardingData
  \/ DeduplicateOnboardingData
  \/ GetCurrentNetworkingData
  \/ MergeNetworkingData
  \/ UpdateNetworkingDashboard
  \/ UpdateReadSheet
  \/ UpdateAppend

\* one run of sync()
Spec == Init /\ [][Next]_vars

NextRerun ==
  \/ Next
  \/ SyncAgain

\* a run of sync() and, when it succeeded, a second one
SpecRerun == Init /\ [][NextRerun]_vars

\* ------------------------------------------------------------------------
\* A run of preview()
\* ------------------------------------------------------------------------

\* statistics that report no updated entry, as sync's do
PreviewSuccess_NoUpdates ==
  [ success |-> TRUE,
    message |-> "Preview completed successfully",
    stats |-> << [ totalOnboardingEntries |-> Len(onboardingData),
                   deduplicatedEntries |-> Len(deduplicatedData),
                   currentEntries |-> Len(currentData),
                   newEntries |-> newEntriesOf(deduplicatedData, currentData),
                   updatedEntries |-> 0 ] >> ]

\* lines 573-596: preview's statistics and its success result
PreviewSuccess ==
  [ success |-> TRUE,
    message |-> "Preview completed successfully",
    stats |-> << [ totalOnboardingEntries |-> Len(onboardingData),
                   deduplicatedEntries |-> Len(deduplicatedData),
                   currentEntries |-> Len(currentData),
                   newEntries |-> newEntriesOf(deduplicatedData, currentData),
                   updatedEntries |-> Len(deduplicatedData)
                                        - newEntriesOf(deduplicatedData, currentData) ] >> ]

\* a preview that hands the rows of the new people to values.append
PreviewStatistics_Appends ==
  /\ pc = "previewStatistics"
  /\ LET newRows == newRowsOf(newPeopleOf(deduplicatedData, currentData), headersOf(dashboardSheet))
     IN  /\ appendCalls' = Append(appendCalls, newRows)
         /\ dashboardSheet' = appendValues(dashboardSheet, newRows)
  /\ result' = <<PreviewSuccess>>
  /\ log' = Append(log, "statistics")
  /\ pc' = "done"
  /\ UNCHANGED << onboardingSheet, clock, onboardingData, deduplicatedData,
                  currentData, mergedData, existingRows, updateResult,
                  sheetAtStart, previous, mode, call, returned >>

\* lines 573-596: after its reads preview counts and returns
PreviewStatistics ==
  /\ pc = "previewStatistics"
  /\ result' = <<PreviewSuccess>>
  /\ log' = Append(log, "statistics")
  /\ pc' = "done"
  /\ UNCHANGED << onboardingSheet, dashboardSheet, clock, onboardingData, deduplicatedData,
                  currentData, mergedData, existingRows, updateResult, appendCalls,
                  sheetAtStart, previous, mode, call, returned >>

\* new NetworkingSync() and either sync() or preview()
InitSyncOrPreview == Start /\ mode \in {"sync", "preview"}

NextSyncOrPreview ==
  \/ Next
  \/ PreviewStatistics

\* one run of sync() or of preview()
SpecSyncOrPreview == InitSyncOrPreview /\ [][NextSyncOrPreview]_vars

\* ------------------------------------------------------------------------
\* A call of findColumnIndex, and the building of a row, by themselves
\* ------------------------------------------------------------------------

\* the most headers of a header row these calls are given
MaxHeaders == 2

\* header labels of an onboarding sheet
OnboardingHeaderNames ==
  {
    <<"E", "m", "a", "i", "l">>,
    <<"P", "e", "r", "s", "o", "n", "a", "l", "_", "E", "m", "a", "i", "l">>,
    <<"N", "a", "m", "e">>,
    <<"P", "o", "s", "i", "t", "i", "o", "n">>,
    <<"J", "o", "b", " ", "T", "i", "t", "l", "e">>,
    <<"C", "o", "m", "p", "a", "n", "y", " ", "R", "a", "t", "i", "n", "g">>,
    <<"R", "o", "l", "e", " ", "R", "a", "t", "i", "n", "g">>,
    <<>> }

\* header labels of a dashboard sheet
DashboardHeaderNames ==
  {
    <<"E", "m", "a", "i", "l">>,
    <<"P", "e", "r", "s", "o", "n", "a", "l", " ", "E", "m", "a", "i", "l">>,
    <<"N", "a", "m", "e">>,
    <<"C", "o", "m", "p", "a", "n", "y">>,
    <<"C", "o", "m", "p", "a", "n", "y", " ", "R", "a", "t", "i", "n", "g">>,
    <<"R", "o", "l", "e", " ", "R", "a", "t", "i", "n", "g">>,
    <<"C", "o", "m", "p", "a", "n", "y", " ", "P", "h", "o", "n", "e">>,
    <<"C", "o", "m", "p", "a", "n", "y", " ", "E", "m", "a", "i", "l">>,
    <<"L", "o", "c", "a", "t", "i", "o", "n">>,
    <<>> }

\* the alias lists getOnboardingData passes (lines 149-158, 188-202)
AliasLists == {Aliases[f] : f \in DOMAIN Aliases}

\* people as getOnboardingData makes them: one with every field of the
\* sheet below filled, one with the email and the name only
SampleHeaders == <<
  <<"E", "m", "a", "i", "l">>,
  <<"N", "a", "m", "e">>,
  <<"P", "e", "r", "s", "o", "n", "a", "l", "_", "E", "m", "a", "i", "l">>,
  <<"P", "h", "o", "n", "e", "_", "N", "u", "m", "b", "e", "r">>,
  <<"C", "o", "m", "p", "a", "n", "y">>,
  <<"C", "o", "m", "p", "a", "n", "y", "_", "R", "a", "t", "i", "n", "g">>,
  <<"R", "o", "l", "e", "_", "R", "a", "t", "i", "n", "g">> >>
SampleRows ==
  { <<
      <<"a", "@", "x">>,
      <<"n">>,
      <<"p", "@", "x">>,
      <<"5">>,
      <<"c", "o">>,
      <<"4">>,
      <<"3">> >>,
    <<
      <<"b", "@", "x">>,
      <<"m">> >> }
SamplePeople == {personOf(SampleHeaders, row, 1, Now) : row \in SampleRows}

FindColumnIndexCalls ==
  {[method |-> "findColumnIndex", headers |-> h, possibleNames |-> a] :
     h \in SeqsUpTo(OnboardingHeaderNames, MaxHeaders), a \in AliasLists}

NewRowCalls ==
  {[method |-> "newRow", person |-> person, headers |-> h] :
     person \in SamplePeople, h \in SeqsUpTo(DashboardHeaderNames, MaxHeaders)}

InitCall ==
  /\ call \in FindColumnIndexCalls \cup NewRowCalls
  /\ returned = <<>>
  /\ mode = "call"
  /\ pc = "call"
  /\ onboardingSheet = <<>>
  /\ dashboardSheet = <<>>
  /\ clock = Now
  /\ onboardingData = <<>>
  /\ deduplicatedData = <<>>
  /\ currentData = <<>>
  /\ mergedData = <<>>
  /\ existingRows = <<>>
  /\ updateResult = <<>>
  /\ result = <<>>
  /\ appendCalls = <<>>
  /\ log = <<>>
  /\ sheetAtStart = <<>>
  /\ previous = <<>>

\* lines 245-253
FindColumnIndex ==
  /\ pc = "call"
  /\ call.method = "findColumnIndex"
  /\ returned' = <<findColumnIndex(call.headers, call.possibleNames)>>
  /\ pc' = "returned"
  /\ UNCHANGED << onboardingSheet, dashboardSheet, clock, onboardingData, deduplicatedData,
                  currentData, mergedData, existingRows, updateResult, result, appendCalls,
                  log, sheetAtStart, previous, mode, call >>

\* lines 402-453: the callback of newPeople.map
NewRow ==
  /\ pc = "call"
  /\ call.method = "newRow"
  /\ returned' = <<newRowOf(call.person, call.headers)>>
  /\ pc' = "returned"
  /\ UNCHANGED << onboardingSheet, dashboardSheet, clock, onboardingData, deduplicatedData,
                  currentData, mergedData, existingRows, updateResult, result, appendCalls,
                  log, sheetAtStart, previous, mode, call >>

NextCall ==
  \/ FindColumnIndex
  \/ NewRow

\* one call of findColumnIndex or one row built
SpecCall == InitCall /\ [][NextCall]_vars

\* ------------------------------------------------------------------------
\* Properties
\* ------------------------------------------------------------------------

InLog(e) == \E i \in 1..Len(log) : log[i] = e
Position(e) == CHOOSE i \in 1..Len(log) : log[i] = e

SameObject(a, b) == DOMAIN a = DOMAIN b /\ \A k \in DOMAIN a : a[k] = b[k]

\* C1 (Conservativity): once the merge is made, the kept part of the merged
\* data (its first records, one per existing record) equals the existing
\* records field for field: the same fields with the same values.
C1_Conservativity ==
  InLog("merge") =>
    /\ Len(mergedData) >= Len(currentData)
    /\ \A i \in 1..Len(currentData) : SameObject(mergedData[i], currentData[i])

\* the normalized form of an email: trimmed and lower-cased
Normalized(email) == ToLowerCase(Trim(email))

\* C2 (No-collision-append): once the merge is made, no record it reports
\* as new has the email that an existing record's email normalizes to
\* (trimmed, lower-cased).
C2_NoCollisionAppend ==
  InLog("merge") =>
    \A i \in (Len(currentData) + 1)..Len(mergedData) :
      \A j \in 1..Len(currentData) :
        Get(currentData[j], Key.email) # Undefined
          => mergedData[i][Key.email] # Normalized(currentData[j][Key.email])

\* the deduplicated onboarding records whose email no existing record has
\* (compared lower-cased, as the program compares them)
AbsentFromExisting ==
  SelectSeq(deduplicatedData, LAMBDA person :
    \A j \in 1..Len(currentData) :
      Get(currentData[j], Key.email) = Undefined
        \/ ToLowerCase(currentData[j][Key.email]) # person[Key.email])

\* C3 (Append-only-new): the rows handed to an append call are, one for
\* one and in order, the rows of the deduplicated onboarding records whose
\* email is absent from the existing dataset; none comes from an existing
\* record.
C3_AppendOnlyNew ==
  \A c \in 1..Len(appendCalls) :
    /\ Len(appendCalls[c]) = Len(AbsentFromExisting)
    /\ \A i \in 1..Len(appendCalls[c]) :
         appendCalls[c][i] = newRowOf(AbsentFromExisting[i], headersOf(existingRows))

\* C4 (Idempotence): when a run has appended rows and sync is run again on
\* the same onboarding sheet and the dashboard sheet as that run left it,
\* the second run hands no row to append.
C4_Idempotence ==
  (previous # <<>> /\ previous[1].result.success /\ previous[1].appended # <<>>)
    => appendCalls = <<>>

EmailsOf(people) == {people[i][Key.email] : i \in 1..Len(people)}

\* C5 (Identity uniqueness): once the deduplication is made, its output
\* holds no two records of equal email, holds a record for every email of
\* its input and none for another, and each record is one of the input.
C5_IdentityUniqueness ==
  InLog("deduplicate") =>
    /\ \A i, j \in 1..Len(deduplicatedData) :
         i # j => deduplicatedData[i][Key.email] # deduplicatedData[j][Key.email]
    /\ EmailsOf(deduplicatedData) = EmailsOf(onboardingData)
    /\ \A i \in 1..Len(deduplicatedData) :
         \E j \in 1..Len(onboardingData) : deduplicatedData[i] = onboardingData[j]

\* the deduplication has removed a duplicate and kept its email
C5_Witness ==
  /\ InLog("deduplicate")
  /\ deduplicatedData # <<>>
  /\ Len(deduplicatedData) < Len(onboardingData)

\* a >= b of two Dates' times; false when either is an Invalid Date (NaN)
DateGE(a, b) == a.valid /\ b.valid /\ a.t >= b.t

\* C6 (Most-recent-wins): once the deduplication is made, the record that
\* survives for an email has a submission date greater than or equal to
\* that of every other record of the same email, whatever the rows' order and
\* whatever their timestamp cells hold.
C6_MostRecentWins ==
  InLog("deduplicate") =>
    \A i \in 1..Len(deduplicatedData) : \A j \in 1..Len(onboardingData) :
      (/\ onboardingData[j][Key.email] = deduplicatedData[i][Key.email]
       /\ onboardingData[j][Key.rowId] # deduplicatedData[i][Key.rowId])
        => DateGE(deduplicatedData[i][Key.submissionDate], onboardingData[j][Key.submissionDate])

\* header h contains alias a, compared lower-cased
HeaderHasAlias(h, a) == Includes(ToLowerCase(h), ToLowerCase(a))

HasEmailColumn ==
  /\ onboardingSheet # <<>>
  /\ \E c \in 1..Len(onboardingSheet[1]) : \E a \in 1..Len(Aliases.email) :
       HeaderHasAlias(onboardingSheet[1][c], Aliases.email[a])

\* the email column of the onboarding sheet (1-based): the leftmost header
\* that contains the first alias that any header contains
EmailColumn ==
  LET headers == onboardingSheet[1]
      found(a) == \E c \in 1..Len(headers) : HeaderHasAlias(headers[c], Aliases.email[a])
      alias == CHOOSE a \in 1..Len(Aliases.email) : found(a) /\ \A b \in 1..(a - 1) : ~found(b)
  IN  CHOOSE c \in 1..Len(headers) :
        /\ HeaderHasAlias(headers[c], Aliases.email[alias])
        /\ \A d \in 1..(c - 1) : ~HeaderHasAlias(headers[d], Aliases.email[alias])

\* the cell of column col of a row is missing, empty or white space
BlankCell(row, col) ==
  \/ col > Len(row)
  \/ \A k \in 1..Len(row[col]) : row[col][k] = " "

\* C7 (Missing-email exclusion): when the sheet was fetched and has an
\* email column, the run goes on (it is no error), no record comes from a
\* row whose email cell is missing, empty or white space, and every other
\* data row has its record, in the order of the rows.
C7_MissingEmailExclusion ==
  (InLog("fetchOnboarding") /\ HasEmailColumn) =>
    LET col == EmailColumn
        rowIds == [k \in 1..Len(onboardingData) |-> onboardingData[k][Key.rowId]]
    IN  /\ pc # "done" \/ Len(log) > Position("fetchOnboarding")
        /\ \A k \in 1..Len(rowIds) : ~BlankCell(onboardingSheet[rowIds[k]], col)
        /\ {rowIds[k] : k \in 1..Len(rowIds)}
             = {r \in 2..Len(onboardingSheet) : ~BlankCell(onboardingSheet[r], col)}
        /\ \A k \in 1..(Len(rowIds) - 1) : rowIds[k] < rowIds[k + 1]

\* a row without an email was left out and a later row has its record
C7_Witness ==
  /\ InLog("fetchOnboarding")
  /\ HasEmailColumn
  /\ \E r \in 2..Len(onboardingSheet) :
       /\ BlankCell(onboardingSheet[r], EmailColumn)
       /\ \E k \in 1..Len(onboardingData) : onboardingData[k][Key.rowId] > r

\* the run has ended with a failure result, no append call was issued and
\* the dashboard sheet is as the run found it
FailedWithoutAppend ==
  /\ pc = "done"
  /\ result # <<>>
  /\ ~result[1].success
  /\ result[1].stats = <<>>
  /\ appendCalls = <<>>
  /\ dashboardSheet = sheetAtStart

\* C8 (Required email column), as claimed: whenever the onboarding sheet
\* was fetched and no header of it matches an email alias, getOnboardingData
\* has failed and produced no record, the run has ended with a failure
\* result and no append was made.
C8_RequiredEmailColumn_Claimed ==
  (InLog("fetchOnboarding") /\ ~HasEmailColumn) =>
    (onboardingData = <<>> /\ FailedWithoutAppend)

\* C8 as amended: the same, for an onboarding sheet that has a header row
\* (a sheet without any row is no error: it yields no record and the run
\* goes on).
C8_RequiredEmailColumn ==
  (InLog("fetchOnboarding") /\ onboardingSheet # <<>> /\ ~HasEmailColumn) =>
    (onboardingData = <<>> /\ FailedWithoutAppend)

\* a sheet with data rows and no email column was fetched
C8_Witness ==
  /\ InLog("fetchOnboarding")
  /\ Len(onboardingSheet) > 1
  /\ ~HasEmailColumn
  /\ pc = "done"

\* step b, when it occurs, comes after step a
Before(a, b) == InLog(b) => (InLog(a) /\ Position(a) < Position(b))

\* authentication, a fetch, the normalisation (no email column) or the
\* re-read of the dashboard sheet has failed
StepFailed ==
  \/ InLog("authFailed")
  \/ InLog("fetchOnboardingFailed")
  \/ InLog("fetchOnboarding") /\ onboardingSheet # <<>> /\ ~HasEmailColumn
  \/ InLog("fetchCurrentFailed")
  \/ InLog("readSheetFailed")

\* C9 (Abort before mutation), as claimed: the steps of a run occur in the
\* order fetch-onboarding, fetch-existing, compute (deduplicate and merge),
\* append; and when a step before the append fails, the run ends with a
\* failure result, no append call is issued and the dashboard sheet is as
\* it was.
C9_AbortBeforeMutation_Claimed ==
  /\ Before("fetchOnboarding", "fetchCurrent")
  /\ Before("fetchCurrent", "deduplicate")
  /\ Before("fetchCurrent", "merge")
  /\ Before("deduplicate", "append") /\ Before("deduplicate", "appendFailed")
  /\ Before("merge", "append") /\ Before("merge", "appendFailed")
  /\ StepFailed => FailedWithoutAppend

\* C9 as amended: the order is fetch-onboarding, deduplicate,
\* fetch-existing, merge, append (the deduplication comes before the
\* dashboard is fetched); the rest as claimed.
C9_AbortBeforeMutation ==
  /\ Before("auth", "fetchOnboarding")
  /\ Before("fetchOnboarding", "deduplicate")
  /\ Before("deduplicate", "fetchCurrent")
  /\ Before("fetchCurrent", "merge")
  /\ Before("merge", "append") /\ Before("merge", "appendFailed")
  /\ appendCalls # <<>> <=> (InLog("append") \/ InLog("appendFailed"))
  /\ dashboardSheet # sheetAtStart => InLog("append")
  /\ StepFailed => FailedWithoutAppend

\* the fetch of the dashboard failed in a run that had people to add
C9_Witness ==
  /\ InLog("fetchCurrentFailed")
  /\ deduplicatedData # <<>>
  /\ pc = "done"

\* the merged data holds a record whose email is none of the existing
\* records' non-empty lower-cased emails
HasNewPerson ==
  \E i \in 1..Len(mergedData) :
    \A j \in 1..Len(currentData) :
      \/ Get(currentData[j], Key.email) \in {Undefined, <<>>}
      \/ ToLowerCase(currentData[j][Key.email]) # mergedData[i][Key.email]

\* C10 (Single sink invocation), as claimed: no run issues more than one
\* append call, and a run in which both fetches and the computation
\* succeeded has issued exactly one when it ends.
C10_SingleSinkInvocation_Claimed ==
  /\ Len(appendCalls) <= 1
  /\ (pc = "done" /\ InLog("fetchOnboarding") /\ InLog("fetchCurrent") /\ InLog("merge"))
       => Len(appendCalls) = 1

\* C10 as amended: no run issues more than one append call; a run in which
\* both fetches and the computation succeeded has issued exactly one when
\* it ends if the merged data held a new person and the re-read of the
\* dashboard sheet succeeded, and none otherwise.
C10_SingleSinkInvocation ==
  /\ Len(appendCalls) <= 1
  /\ (pc = "done" /\ InLog("fetchOnboarding") /\ InLog("fetchCurrent") /\ InLog("merge"))
       => Len(appendCalls) = (IF HasNewPerson /\ InLog("readSheet") THEN 1 ELSE 0)

\* a run has ended after its one append call
C10_Witness ==
  /\ pc = "done"
  /\ InLog("append")
  /\ Len(appendCalls) = 1

\* C11 (Preview makes no changes): no step of a run of preview, whether the
\* run goes on to succeed or to fail and whatever the sheets hold, issues
\* an append call or changes the onboarding sheet or the dashboard sheet.
C11_PreviewMakesNoChanges ==
  [][mode = "preview" => UNCHANGED << onboardingSheet, dashboardSheet, appendCalls >>]_vars

\* a preview has ended with success and has counted new entries, and no
\* append call was issued
C11_Witness ==
  /\ mode = "preview"
  /\ pc = "done"
  /\ result[1].success
  /\ result[1].stats[1].newEntries > 0
  /\ appendCalls = <<>>
  /\ dashboardSheet = sheetAtStart

\* the deduplicated records whose email is an existing record's
\* lower-cased email
Collisions ==
  {i \in 1..Len(deduplicatedData) :
     \E j \in 1..Len(currentData) :
       /\ Get(currentData[j], Key.email) # Undefined
       /\ ToLowerCase(currentData[j][Key.email]) = deduplicatedData[i][Key.email]}

C13_WriteFailure ==
  InLog("appendFailed") =>
    /\ InLog("fetchOnboarding") /\ InLog("fetchCurrent") /\ InLog("merge")
    /\ updateResult = <<[success |-> FALSE, rowsUpdated |-> 0]>>
    /\ pc = "done"
    /\ Len(result) = 1 /\ ~result[1].success /\ result[1].stats = <<>>
    /\ Len(appendCalls) = 1
    /\ log[Len(log)] = "appendFailed"

\* the append call of a run with rows to add has failed
C13_Witness ==
  /\ InLog("appendFailed")
  /\ pc = "done"
  /\ appendCalls # <<>>
  /\ appendCalls[1] # <<>>
  /\ appendRangeValid(headersOf(existingRows))

\* the header list of the rating columns scenario
RatingHeaders == << <<"C", "o", "m", "p", "a", "n", "y", " ", "R", "a", "t", "i", "n", "g">>, <<"R", "o", "l", "e", " ", "R", "a", "t", "i", "n", "g">> >>

\* C14 (Rating columns scenario): for the header list
\* ["Company Rating", "Role Rating"], the lookup getOnboardingData makes for
\* companyRating returns position 0 and the one it makes for roleRating
\* returns position 1.
C14_RatingColumns ==
  (pc = "returned" /\ call.method = "findColumnIndex" /\ call.headers = RatingHeaders) =>
    /\ call.possibleNames = Aliases.companyRating => returned[1] = 0
    /\ call.possibleNames = Aliases.roleRating => returned[1] = 1

\* the cell of a 0-based column of a row, '' when the row ends before it
CellOr(row, index) == IF index < Len(row) THEN row[index + 1] ELSE <<>>

\* the text is an integer: digits, after an optional sign
IsInteger(str) ==
  LET digits == IF str # <<>> /\ str[1] \in {"-", "+"} THEN Tail(str) ELSE str
  IN  digits # <<>> /\ \A i \in 1..Len(digits) : IsDigit(digits[i])

\* C15 (Status derivation): the currentStatus of every record of the
\* onboarding sheet is decided by the first applicable rule: (1) with a
\* status column, alumni when the cell's lower-cased text contains "alumni"
\* and current otherwise, an empty status cell included, whatever the
\* graduation year; (2) else, with a graduation year column whose cell is an
\* integer, alumni when the year is less than the current year and current
\* otherwise; (3) else current.
C15_StatusDerivation ==
  (InLog("fetchOnboarding") /\ onboardingSheet # <<>>) =>
    \A k \in 1..Len(onboardingData) :
      LET headers == onboardingSheet[1]
          row == onboardingSheet[onboardingData[k][Key.rowId]]
          status == CellOr(row, statusIndex(headers))
          year == Trim(CellOr(row, graduationIndex(headers)))
      IN  onboardingData[k][Key.currentStatus] =
            IF statusIndex(headers) # -1
            THEN (IF Includes(ToLowerCase(status), alumni) THEN alumni ELSE current)
            ELSE IF graduationIndex(headers) # -1 /\ IsInteger(year)
                 THEN (IF parseInt(year).n < CurrentYear THEN alumni ELSE current)
                 ELSE current

\* C16 (Submission date derivation): the submissionDate of every record of
\* the onboarding sheet is a valid point in time: the parsed timestamp cell
\* when a timestamp column resolved and the cell parses as a valid date,
\* and a reading of the wall clock during the run in every other case
\* (no column, cell empty, cell not a date).
C16_SubmissionDate ==
  (InLog("fetchOnboarding") /\ onboardingSheet # <<>>) =>
    \A k \in 1..Len(onboardingData) :
      LET headers == onboardingSheet[1]
          row == onboardingSheet[onboardingData[k][Key.rowId]]
          cell == CellOr(row, dateIndex(headers))
          date == onboardingData[k][Key.submissionDate]
      IN  /\ date.valid
          /\ IF dateIndex(headers) # -1 /\ ParseDate(cell).valid
             THEN date = ParseDate(cell)
             ELSE date.t \in Now..clock

\* C17 (Greedy first-match column resolution): findColumnIndex returns the
\* position of the leftmost header that contains, compared lower-cased, the
\* first name of the list that any header contains, and -1 exactly when no
\* header contains any name of the list.
C17_GreedyFirstMatch ==
  (pc = "returned" /\ call.method = "findColumnIndex") =>
    LET headers == call.headers
        names == call.possibleNames
        found(a) == \E c \in 1..Len(headers) : HeaderHasAlias(headers[c], names[a])
    IN  IF \E a \in 1..Len(names) : found(a)
        THEN LET alias == CHOOSE a \in 1..Len(names) : found(a) /\ \A b \in 1..(a - 1) : ~found(b)
             IN  /\ returned[1] \in 0..(Len(headers) - 1)
                 /\ HeaderHasAlias(headers[returned[1] + 1], names[alias])
                 /\ \A d \in 1..returned[1] : ~HeaderHasAlias(headers[d], names[alias])
        ELSE returned[1] = -1

\* an earlier name found in a later column has won over a later name found
\* in an earlier column
C17_Witness ==
  /\ pc = "returned"
  /\ call.method = "findColumnIndex"
  /\ returned[1] = 1
  /\ \E a, b \in 1..Len(call.possibleNames) :
       /\ a < b
       /\ HeaderHasAlias(call.headers[2], call.possibleNames[a])
       /\ ~HeaderHasAlias(call.headers[1], call.possibleNames[a])
       /\ HeaderHasAlias(call.headers[1], call.possibleNames[b])

\* the destination rules in the order they are tried: a header matches a
\* rule when its lower-cased text contains every word of all and no word of
\* none; the cell then receives the record's field
DestinationRules ==
  <<
     [all |-> {<<"e", "m", "a", "i", "l">>}, none |-> {<<"p", "e", "r", "s", "o", "n", "a", "l">>}, field |-> Key.email],
     [all |-> {<<"n", "a", "m", "e">>}, none |-> {<<"c", "o", "m", "p", "a", "n", "y">>}, field |-> Key.name],
     [all |-> {<<"p", "e", "r", "s", "o", "n", "a", "l">>, <<"e", "m", "a", "i", "l">>}, none |-> {}, field |-> Key.personalEmail],
     [all |-> {<<"p", "h", "o", "n", "e">>}, none |-> {}, field |-> Key.phone],
     [all |-> {<<"m", "a", "j", "o", "r">>}, none |-> {}, field |-> Key.major],
     [all |-> {<<"m", "i", "n", "o", "r">>}, none |-> {}, field |-> Key.minor],
     [all |-> {<<"c", "o", "l", "l", "e", "g", "e">>}, none |-> {}, field |-> Key.college],
     [all |-> {<<"s", "c", "h", "o", "o", "l">>, <<"y", "e", "a", "r">>}, none |-> {}, field |-> Key.schoolYear],
     [all |-> {<<"g", "r", "a", "d", "u", "a", "t", "i", "o", "n">>}, none |-> {}, field |-> Key.graduationYear],
     [all |-> {<<"l", "i", "n", "k", "e", "d", "i", "n">>}, none |-> {}, field |-> Key.linkedin],
     [all |-> {<<"p", "o", "r", "t", "f", "o", "l", "i", "o">>}, none |-> {}, field |-> Key.portfolio],
     [all |-> {<<"n", "u", "m", "b", "e", "r">>, <<"p", "o", "s", "i", "t", "i", "o", "n">>}, none |-> {}, field |-> Key.positionsCount],
     [all |-> {<<"c", "o", "m", "p", "a", "n", "y">>}, none |-> {<<"r", "a", "t", "i", "n", "g">>}, field |-> Key.company],
     [all |-> {<<"j", "o", "b">>, <<"t", "i", "t", "l", "e">>}, none |-> {}, field |-> Key.position],
     [all |-> {<<"s", "e", "m", "e", "s", "t", "e", "r">>}, none |-> {}, field |-> Key.semester],
     [all |-> {<<"d", "u", "r", "a", "t", "i", "o", "n">>}, none |-> {}, field |-> Key.duration],
     [all |-> {<<"c", "o", "m", "p", "a", "n", "y">>, <<"r", "a", "t", "i", "n", "g">>}, none |-> {}, field |-> Key.companyRating],
     [all |-> {<<"r", "o", "l", "e">>, <<"r", "a", "t", "i", "n", "g">>}, none |-> {}, field |-> Key.roleRating],
     [all |-> {<<"j", "o", "b">>, <<"s", "e", "a", "r", "c", "h">>}, none |-> {}, field |-> Key.jobSearchMethod],
     [all |-> {<<"i", "n", "d", "u", "s", "t", "r", "y">>}, none |-> {}, field |-> Key.industry] >>

MatchesRule(header, rule) ==
  /\ \A w \in rule.all : Includes(ToLowerCase(header), w)
  /\ \A w \in rule.none : ~Includes(ToLowerCase(header), w)

\* the value of a field of a record, '' when the record lacks it
FieldOr(person, field) == IF field \in DOMAIN person THEN person[field] ELSE <<>>

\* C18 (Output row-building), as claimed: the built row has one cell for
\* each header; a header that contains "email" but not "personal" receives
\* the email, one that contains "personal" and "email" the personalEmail,
\* one that contains "company" but not "rating" the company, one that
\* contains "company" and "rating" the companyRating, and a header that
\* matches no destination rule receives the empty string.
C18_OutputRowBuilding_Claimed ==
  (pc = "returned" /\ call.method = "newRow") =>
    LET row == returned[1]
        person == call.person
        has(c, w) == Includes(ToLowerCase(call.headers[c]), w)
    IN  /\ Len(row) = Len(call.headers)
        /\ \A c \in 1..Len(call.headers) :
             /\ (has(c, <<"e", "m", "a", "i", "l">>) /\ ~has(c, <<"p", "e", "r", "s", "o", "n", "a", "l">>)) => row[c] = person[Key.email]
             /\ (has(c, <<"p", "e", "r", "s", "o", "n", "a", "l">>) /\ has(c, <<"e", "m", "a", "i", "l">>)) => row[c] = person[Key.personalEmail]
             /\ (has(c, <<"c", "o", "m", "p", "a", "n", "y">>) /\ ~has(c, <<"r", "a", "t", "i", "n", "g">>)) => row[c] = person[Key.company]
             /\ (has(c, <<"c", "o", "m", "p", "a", "n", "y">>) /\ has(c, <<"r", "a", "t", "i", "n", "g">>)) => row[c] = person[Key.companyRating]
             /\ (\A r \in 1..Len(DestinationRules) : ~MatchesRule(call.headers[c], DestinationRules[r]))
                  => row[c] = <<>>

\* C18 as amended: the built row has one cell for each header; the cell of
\* a header receives the field of the first destination rule, in the order
\* the rules are tried, that the header matches (so the email rule comes
\* before every other, and the company and companyRating rules come after
\* the rules for personal email, phone, major, minor, college, school
\* year, graduation, linkedin, portfolio and number of positions), and the
\* empty string when it matches none.
C18_OutputRowBuilding ==
  (pc = "returned" /\ call.method = "newRow") =>
    LET row == returned[1]
        matching(c) == {r \in 1..Len(DestinationRules) : MatchesRule(call.headers[c], DestinationRules[r])}
        firstRule(c) == CHOOSE r \in matching(c) : \A q \in matching(c) : r <= q
    IN  /\ Len(row) = Len(call.headers)
        /\ \A c \in 1..Len(call.headers) :
             row[c] = IF matching(c) = {} THEN <<>>
                      ELSE FieldOr(call.person, DestinationRules[firstRule(c)].field)

\* a row was built for a header that matches the email rule and the company
\* rule, next to a header that matches the companyRating rule alone
C18_Witness ==
  /\ pc = "returned"
  /\ call.method = "newRow"
  /\ Len(returned[1]) = 2
  /\ MatchesRule(call.headers[1], DestinationRules[1])
  /\ MatchesRule(call.headers[1], DestinationRules[13])
  /\ returned[1][1] = call.person[Key.email]
  /\ {r \in 1..Len(DestinationRules) : MatchesRule(call.headers[2], DestinationRules[r])} = {17}
  /\ returned[1][2] = call.person[Key.companyRating]
  /\ returned[1][2] # <<>>

\* C19 (Deterministic deduplication): the deduplication step leaves its
\* input as it was; its output lists the survivors in non-increasing
\* submissionDate order, survivors of equal date in the order of their
\* rows; and a survivor comes before (has a lower row than) every other
\* record of its email that shares its date, so the output is a function
\* of the input.
C19_DeterministicDeduplication ==
  [][pc = "deduplicate" =>
       /\ onboardingData' = onboardingData
       /\ \A i, j \in 1..Len(deduplicatedData') :
            i < j =>
              LET a == deduplicatedData'[i]
                  b == deduplicatedData'[j]
              IN  /\ DateGE(a[Key.submissionDate], b[Key.submissionDate])
                  /\ a[Key.submissionDate] = b[Key.submissionDate] => a[Key.rowId] < b[Key.rowId]
       /\ \A i \in 1..Len(deduplicatedData') : \A j \in 1..Len(onboardingData) :
            (/\ onboardingData[j][Key.email] = deduplicatedData'[i][Key.email]
             /\ onboardingData[j][Key.submissionDate] = deduplicatedData'[i][Key.submissionDate])
              => deduplicatedData'[i][Key.rowId] <= onboardingData[j][Key.rowId]]_vars

=============================================================================
